---- MODULE Spec2Model ----
(***************************************************************************)
(* Route engine of the galactic star map: calculate_path in src/app.py.    *)
(*                                                                         *)
(* Positions are the NUMERIC(10,2) column of the systems table: exact      *)
(* decimals, kept here as whole numbers of hundredths.  Costs and          *)
(* distances are Python floats (IEEE-754 binary64): the code converts the  *)
(* exact decimal difference with float() and from there on adds,           *)
(* multiplies, subtracts and compares floats.  A float is kept here as its *)
(* exact value in units of 2^-60, and every float operation is the exact   *)
(* operation followed by rounding to 53 significant bits, ties to even.    *)
(***************************************************************************)
EXTENDS Integers, Sequences, FiniteSets, TLC

(***************************************************************************)
(* binary64 arithmetic                                                     *)
(*                                                                         *)
(* <<i, h, l>> is the value i + h / 2^30 + l / 2^60.  Every float that     *)
(* occurs is a whole multiple of 2^-60 below 2^22.                         *)
(***************************************************************************)
Base == 1073741824
HalfBase == 536870912
Half == 32768
MantissaBits == 53

BigZero == <<0, 0, 0>>

\* the whole number n as a float
BigOfInt(n) == <<n, 0, 0>>

BigAdd(a, b) ==
    LET l == a[3] + b[3]
        h == a[2] + b[2] + (l \div Base)
    IN  <<a[1] + b[1] + (h \div Base), h % Base, l % Base>>

\* a - b for a >= b
BigSub(a, b) ==
    LET l == a[3] - b[3]
        h == a[2] - b[2] - (IF l < 0 THEN 1 ELSE 0)
    IN  <<a[1] - b[1] - (IF h < 0 THEN 1 ELSE 0),
          IF h < 0 THEN h + Base ELSE h,
          IF l < 0 THEN l + Base ELSE l>>

\* x * k + carry for one limb x and a small whole number k
MulLimb(x, k, carry) ==
    LET p1  == (x \div Half) * k
        low == (p1 % Half) * Half + (x % Half) * k + carry
    IN  [digit |-> low % Base, carry |-> (p1 \div Half) + (low \div Base)]

\* a * k for a small whole number k
BigMulSmall(a, k) ==
    LET l == MulLimb(a[3], k, 0)
        h == MulLimb(a[2], k, l.carry)
    IN  <<a[1] * k + h.carry, h.digit, l.digit>>

BigLess(a, b) ==
    \/ a[1] < b[1]
    \/ a[1] = b[1] /\ a[2] < b[2]
    \/ a[1] = b[1] /\ a[2] = b[2] /\ a[3] < b[3]

\* number of significant bits of a limb value
RECURSIVE BitLen(_)
BitLen(v) == IF v = 0 THEN 0 ELSE 1 + BitLen(v \div 2)

BigBitLen(a) ==
    IF a[1] > 0 THEN 60 + BitLen(a[1])
    ELSE IF a[2] > 0 THEN 30 + BitLen(a[2])
    ELSE BitLen(a[3])

\* a rounded at a unit of the low limb; r is the part of a below the unit
RoundLow(a, sticky, unit, r) ==
    IF r > unit \div 2
       \/ (r = unit \div 2 /\ (sticky \/ (a[3] \div unit) % 2 = 1))
    THEN BigAdd(<<a[1], a[2], a[3] - r>>, <<0, 0, unit>>)
    ELSE <<a[1], a[2], a[3] - r>>

\* a rounded at a unit of the middle limb; rem is the part of a below the
\* unit and half is half the unit
RoundHigh(a, sticky, unit, rem, half) ==
    IF BigLess(half, rem)
       \/ (rem = half /\ (sticky \/ (a[2] \div unit) % 2 = 1))
    THEN BigAdd(<<a[1], a[2] - rem[2], 0>>, <<0, unit, 0>>)
    ELSE <<a[1], a[2] - rem[2], 0>>

\* a rounded at the bit of weight 2^(shift - 60)
RoundAt(a, sticky, shift) ==
    IF shift <= 0 THEN a
    ELSE IF shift < 30
    THEN RoundLow(a, sticky, 2^shift, a[3] % 2^shift)
    ELSE RoundHigh(a, sticky, 2^(shift - 30),
                   <<0, a[2] % 2^(shift - 30), a[3]>>,
                   IF shift = 30 THEN <<0, 0, HalfBase>>
                   ELSE <<0, 2^(shift - 30) \div 2, 0>>)

\* round to MantissaBits significant bits, ties to even; sticky tells that
\* the exact value lies strictly above a
Round53(a, sticky) == RoundAt(a, sticky, BigBitLen(a) - MantissaBits)

\* float(d) for an exact decimal d >= 0 of h hundredths: the quotient
\* h / 100 to 60 binary places, then rounded
FloatOfHundredths(h) ==
    LET t1 == (h % 100) * Half
        t2 == (t1 % 100) * Half
        t3 == (t2 % 100) * Half
        t4 == (t3 % 100) * Half
    IN  Round53(<<h \div 100,
                  (t1 \div 100) * Half + (t2 \div 100),
                  (t3 \div 100) * Half + (t4 \div 100)>>,
                t4 % 100 # 0)

FloatAdd(x, y) == Round53(BigAdd(x, y), FALSE)

\* x - y for x >= y
FloatSub(x, y) == Round53(BigSub(x, y), FALSE)

FloatMul(x, k) == Round53(BigMulSmall(x, k), FALSE)

\* round(x, 2), as the number of hundredths of the result
Round2(x) ==
    LET p  == BigMulSmall(x, 100)
        up == \/ p[2] > HalfBase
              \/ p[2] = HalfBase /\ p[3] > 0
              \/ p[2] = HalfBase /\ p[3] = 0 /\ p[1] % 2 = 1
    IN  IF up THEN p[1] + 1 ELSE p[1]

\* float('inf')
Inf == <<2147483647, 0, 0>>

FloatLess(x, y) == BigLess(x, y)

\* variant: the comparison without the equal case
FloatLeq_strict(x, y) == BigLess(x, y)

FloatLeq(x, y) == ~BigLess(y, x)

(***************************************************************************)
(* the store: the tables calculate_path reads                              *)
(***************************************************************************)
SysIds == {1, 2, 3}

\* the traveler's faction (session['faction_id']) and the other factions
Traveler == 2
AlliedFaction == 1
WarFaction == 3
NeutralFaction == 4
None == 0
NoPosition == -1
\* a position decimal.Decimal() cannot parse
Unparsable == -2
NoRegion == "None"

slow_effect_name == "Null Space Decay"
penalty_multiplier == 100

\* positions of the systems, in hundredths
WholeLayout == <<0, 500, 1200>>
FractionLayout == <<0, 1000, 1113>>
PositionLayouts == {WholeLayout, FractionLayout}

CatapultRadius == 5
MaxFeatures == 3

Owners == {Traveler, AlliedFaction, WarFaction, NeutralFaction}

Relationships ==
    { [faction_a_id |-> AlliedFaction, faction_b_id |-> Traveler, status |-> "allied"],
      [faction_a_id |-> Traveler, faction_b_id |-> WarFaction, status |-> "war"],
      [faction_a_id |-> AlliedFaction, faction_b_id |-> WarFaction, status |-> "war"] }

RegionEffects ==
    { [region_name |-> "Belt", effect_name |-> slow_effect_name],
      [region_name |-> "Rift", effect_name |-> "Ion Storm"] }

WormholeRows == {p \in SysIds \X SysIds : p[1] < p[2]}

VARIABLES
    systems,                \* table systems: id -> row
    wormholes,              \* table wormholes: rows <<system_a_id, system_b_id>>
    faction_relationships,  \* table faction_relationships
    region_effects,         \* table region_effects
    discovered,             \* faction_discovered_systems of the traveler's faction
    is_developer,           \* session['is_developer']
    pc,                     \* "idle", "search" or "done"
    data,                   \* request.get_json(): start_id and end_id
    avoid_slow_regions, avoid_hostile,
    relationships, slow_region_names, systems_map, wormhole_pairs,
    start_id, end_id,
    distances, predecessors, pq,
    response,
    instants,               \* the values the store had while the request's reads
                            \* were interleaved with writes of other requests
    writes                  \* the number of writes of other requests so far

store == <<systems, wormholes, faction_relationships, region_effects, discovered>>
snapshot == <<avoid_slow_regions, avoid_hostile, relationships, slow_region_names,
              systems_map, wormhole_pairs, start_id, end_id>>
search == <<distances, predecessors, pq>>
concurrency == <<instants, writes>>
vars == <<store, is_developer, pc, data, snapshot, search, response, concurrency>>

(***************************************************************************)
(* node identifiers: str(r['id']), 'virtual_start', 'virtual_end'          *)
(***************************************************************************)
virtual_start == "virtual_start"
virtual_end == "virtual_end"
NoNode == "None"
NoMethod == "None"

\* the characters of the identifiers, for Python's string comparison
Chars ==
    "1" :> <<49>> @@ "2" :> <<50>> @@ "3" :> <<51>> @@ "4" :> <<52>> @@
    "9" :> <<57>> @@ "10" :> <<49, 48>> @@
    "virtual_end"   :> <<118, 105, 114, 116, 117, 97, 108, 95, 101, 110, 100>> @@
    "virtual_start" :> <<118, 105, 114, 116, 117, 97, 108, 95, 115, 116, 97, 114, 116>>

RECURSIVE SeqLess(_, _)
SeqLess(a, b) ==
    IF b = <<>> THEN FALSE
    ELSE IF a = <<>> THEN TRUE
    ELSE IF Head(a) # Head(b) THEN Head(a) < Head(b)
    ELSE SeqLess(Tail(a), Tail(b))

StrLess(a, b) == SeqLess(Chars[a], Chars[b])

\* tuple(sorted((a, b))) on identifier strings
SortedPair(a, b) == IF StrLess(b, a) THEN <<b, a>> ELSE <<a, b>>

Abs(n) == IF n < 0 THEN -n ELSE n

(***************************************************************************)
(* the edge cost of the step current_id -> neighbor_id                     *)
(*                                                                         *)
(* g holds the locals of one run of calculate_path: systems_map,           *)
(* relationships, slow_region_names, wormhole_pairs, start_id, end_id,     *)
(* avoid_slow_regions, avoid_hostile.                                      *)
(***************************************************************************)
\* relationships.get(owner)
RelGet(g, owner) ==
    IF owner \in DOMAIN g.relationships THEN g.relationships[owner] ELSE "None"

sublight_dist(g, current_id, neighbor_id) ==
    FloatOfHundredths(Abs(g.systems_map[current_id].position
                          - g.systems_map[neighbor_id].position))

is_slow_travel(g, current_id, neighbor_id) ==
    \/ g.systems_map[current_id].region_name \in g.slow_region_names
    \/ g.systems_map[neighbor_id].region_name \in g.slow_region_names

is_hostile(g, current_id, neighbor_id) ==
    \/ g.systems_map[current_id].owner # None
       /\ RelGet(g, g.systems_map[current_id].owner) = "war"
    \/ g.systems_map[neighbor_id].owner # None
       /\ RelGet(g, g.systems_map[neighbor_id].owner) = "war"

\* variant: every owner that is not at war may use the catapult
is_allowed_unless_war(g, owner) ==
    owner = None \/ owner = Traveler \/ RelGet(g, owner) # "war"

is_allowed(g, owner) ==
    owner = None \/ owner = Traveler \/ RelGet(g, owner) = "allied"

\* variant: every owner that is not an ally blocks the wormhole
is_at_war_unless_allied(g, owner_a, owner_b) ==
    \/ owner_a # None /\ owner_a # Traveler /\ RelGet(g, owner_a) # "allied"
    \/ owner_b # None /\ owner_b # Traveler /\ RelGet(g, owner_b) # "allied"

is_at_war(g, owner_a, owner_b) ==
    \/ owner_a # None /\ RelGet(g, owner_a) = "war"
    \/ owner_b # None /\ RelGet(g, owner_b) = "war"

\* lines 1196-1198
EdgeSublight(dist) == [cost |-> dist, method |-> "sublight"]

\* lines 1200-1205, on the step e so far
EdgeSlowPenalty(g, e, dist, current_id, neighbor_id, slow) ==
    IF slow /\ is_slow_travel(g, current_id, neighbor_id)
    THEN [e EXCEPT !.cost = FloatMul(dist, penalty_multiplier)]
    ELSE e

\* variant: the hostile penalty applies whether or not the request asks for it
EdgeHostilePenalty_whatever_the_flag(g, e, current_id, neighbor_id, hostile) ==
    IF is_hostile(g, current_id, neighbor_id)
    THEN [e EXCEPT !.cost = FloatMul(e.cost, penalty_multiplier)]
    ELSE e

\* lines 1207-1216, on the step e so far
EdgeHostilePenalty(g, e, current_id, neighbor_id, hostile) ==
    IF hostile /\ is_hostile(g, current_id, neighbor_id)
    THEN [e EXCEPT !.cost = FloatMul(e.cost, penalty_multiplier)]
    ELSE e

\* lines 1233-1236
CatapultPartial(e, partial_cost) ==
    IF FloatLess(partial_cost, e.cost)
    THEN [cost |-> partial_cost, method |-> "catapult_sublight"]
    ELSE e

\* variant: the catapult of either end of the step serves it
EdgeCatapult_either_end(g, e, dist, current_sys, neighbor_sys) ==
    IF current_sys.radius > 0 /\ is_allowed(g, current_sys.owner)
    THEN IF FloatLeq(dist, BigOfInt(current_sys.radius))
         THEN IF FloatLess(BigZero, e.cost)
              THEN [cost |-> BigZero, method |-> "catapult"]
              ELSE e
         ELSE CatapultPartial(e, FloatSub(dist, BigOfInt(current_sys.radius)))
    ELSE IF neighbor_sys.radius > 0 /\ is_allowed(g, neighbor_sys.owner)
    THEN IF FloatLeq(dist, BigOfInt(neighbor_sys.radius))
         THEN IF FloatLess(BigZero, e.cost)
              THEN [cost |-> BigZero, method |-> "catapult"]
              ELSE e
         ELSE CatapultPartial(e, FloatSub(dist, BigOfInt(neighbor_sys.radius)))
    ELSE e

\* lines 1221-1236, on the step e so far
EdgeCatapult(g, e, dist, current_sys, neighbor_sys) ==
    IF current_sys.radius > 0 /\ is_allowed(g, current_sys.owner)
    THEN IF FloatLeq(dist, BigOfInt(current_sys.radius))
         THEN IF FloatLess(BigZero, e.cost)
              THEN [cost |-> BigZero, method |-> "catapult"]
              ELSE e
         ELSE CatapultPartial(e, FloatSub(dist, BigOfInt(current_sys.radius)))
    ELSE e

\* variant: the pair looked up as (current_id, neighbor_id), unsorted
id_pair_as_travelled(a, b) == <<a, b>>

\* line 1219: tuple(sorted((current_id, neighbor_id)))
id_pair(a, b) == SortedPair(a, b)

\* variant: a usable wormhole relabels the step whatever its cost
EdgeWormhole_at_any_cost(g, e, current_id, neighbor_id) ==
    IF /\ id_pair(current_id, neighbor_id) \in g.wormhole_pairs
       /\ ~is_at_war(g, g.systems_map[current_id].owner,
                     g.systems_map[neighbor_id].owner)
    THEN [cost |-> BigZero, method |-> "wormhole"]
    ELSE e

\* lines 1239-1248, on the step e so far
EdgeWormhole(g, e, current_id, neighbor_id) ==
    IF /\ id_pair(current_id, neighbor_id) \in g.wormhole_pairs
       /\ ~is_at_war(g, g.systems_map[current_id].owner,
                     g.systems_map[neighbor_id].owner)
       /\ FloatLess(BigZero, e.cost)
    THEN [cost |-> BigZero, method |-> "wormhole"]
    ELSE e

\* the step current_id -> neighbor_id of sublight distance dist once the
\* catapult is evaluated
EdgeAfterCatapult(g, current_id, neighbor_id, slow, hostile, dist) ==
    EdgeCatapult(g,
        EdgeHostilePenalty(g,
            EdgeSlowPenalty(g, EdgeSublight(dist), dist, current_id, neighbor_id, slow),
            current_id, neighbor_id, hostile),
        dist, g.systems_map[current_id], g.systems_map[neighbor_id])

\* cost and method of the step under the given flags, lines 1193-1248
EdgeUnder(g, current_id, neighbor_id, slow, hostile) ==
    EdgeWormhole(g,
        EdgeAfterCatapult(g, current_id, neighbor_id, slow, hostile,
                          sublight_dist(g, current_id, neighbor_id)),
        current_id, neighbor_id)

\* cost and method of the step, with the flags of the request
Edge(g, current_id, neighbor_id) ==
    EdgeUnder(g, current_id, neighbor_id, g.avoid_slow_regions, g.avoid_hostile)

(***************************************************************************)
(* requests and responses                                                  *)
(***************************************************************************)
IdStr(n) == ToString(n)

BadLiteral == -1
VirtualPositions == {500}

\* 'sys:<id>', 'pos:<decimal>', 'pos:abc', and a missing start_id / end_id
SysRef(id) == [form |-> "sys", arg |-> id]
PosRef(h) == [form |-> "pos", arg |-> h]
Missing == [form |-> "missing", arg |-> 0]

Inputs ==
    {SysRef(n) : n \in SysIds} \cup {PosRef(h) : h \in VirtualPositions}
    \cup {PosRef(BadLiteral), Missing}

NoData == [start_id |-> Missing, end_id |-> Missing]

\* the body of a request: request.get_json()
Body(start_input, end_input, slow, hostile) ==
    [start_id |-> start_input, end_id |-> end_input,
     avoid_slow_regions |-> slow, avoid_hostile |-> hostile]

\* 'distance': None, and a key the response does not have
NoDistance == -1
Absent == "absent"

RouteResponse(path, legs, dist) ==
    [status |-> 200, path |-> path, detailed_path |-> legs, distance |-> dist]

\* variant: the empty map answered with the distance 0
NoSystems_zero_distance ==
    [status |-> 200, path |-> <<>>, detailed_path |-> Absent, distance |-> 0]

\* line 1142: {'path': [], 'distance': None}
NoSystems ==
    [status |-> 200, path |-> <<>>, detailed_path |-> Absent, distance |-> NoDistance]

\* lines 1262 and 1277
NoRoute == RouteResponse(<<>>, <<>>, NoDistance)

\* {'error': ...} with the status code
ErrorResponse(code) ==
    [status |-> code, path |-> Absent, detailed_path |-> Absent, distance |-> Absent]

NoResponse == ErrorResponse(0)

\* a virtual coordinate node
VirtualNode(h) ==
    [position |-> h, radius |-> 0, owner |-> None, region_name |-> NoRegion]

\* the row of a system as an entry of systems_map
MapEntry(r) ==
    [position |-> r.position, radius |-> r.catapult_radius,
     owner |-> r.owner_faction_id, region_name |-> r.region_name]

\* the tables as one value
Store ==
    [systems |-> systems, wormholes |-> wormholes,
     faction_relationships |-> faction_relationships,
     region_effects |-> region_effects, discovered |-> discovered]

\* the orders in which a SELECT may return the rows S
RowOrders(S) ==
    {o \in [1..Cardinality(S) -> S] : {o[i] : i \in DOMAIN o} = S}

\* variant: the SELECT without its WHERE clause
RelationshipRows_every_row(table) == table

\* line 1123: the rows of faction_relationships that involve the traveler
RelationshipRows(table) ==
    {r \in table : r.faction_a_id = Traveler \/ r.faction_b_id = Traveler}

\* lines 1124-1126: the dictionary other faction -> status, filled row by row
RECURSIVE ReadRelationships(_)
ReadRelationships(rows) ==
    IF rows = <<>> THEN <<>>
    ELSE LET rel       == rows[Len(rows)]
             other_fac == IF rel.faction_a_id = Traveler THEN rel.faction_b_id
                          ELSE rel.faction_a_id
         IN  (other_fac :> rel.status)
                @@ ReadRelationships(SubSeq(rows, 1, Len(rows) - 1))

\* lines 1129-1133
ReadSlowRegions(table, slow) ==
    IF slow
    THEN {r.region_name : r \in {e \in table : e.effect_name = slow_effect_name}}
    ELSE {}

\* variant: every traveler is served the whole table
SystemRows_all(st, dev) == {[id |-> n, row |-> st.systems[n]] : n \in DOMAIN st.systems}

\* lines 1135-1139: the rows of systems the traveler is served
SystemRows(st, dev) ==
    {[id |-> n, row |-> st.systems[n]] :
        n \in IF dev THEN DOMAIN st.systems ELSE DOMAIN st.systems \cap st.discovered}

\* lines 1145-1156: systems_map, filled row by row; a row whose position
\* cannot be parsed is skipped
RECURSIVE BaseMap(_)
BaseMap(all_systems_raw) ==
    IF all_systems_raw = <<>> THEN <<>>
    ELSE LET r == all_systems_raw[Len(all_systems_raw)]
             rest == BaseMap(SubSeq(all_systems_raw, 1, Len(all_systems_raw) - 1))
         IN  IF r.row.position = Unparsable
             THEN rest
             ELSE (IdStr(r.id) :> MapEntry(r.row)) @@ rest

\* ids of the rows the traveler is served
VisibleRows == {r.id : r \in SystemRows(Store, is_developer)}

ParseFails(input) == input.form = "pos" /\ input.arg = BadLiteral

\* variant: both positions resolve to the one virtual start
ResolveId_one_virtual(input, virtual_id) ==
    IF input.form = "pos" THEN virtual_start ELSE IdStr(input.arg)

ResolveId(input, virtual_id) ==
    IF input.form = "pos" THEN virtual_id ELSE IdStr(input.arg)

\* systems_map after the endpoints are resolved
ResolvedMap(base, start_input, end_input) ==
    LET withStart == IF start_input.form = "pos"
                     THEN (virtual_start :> VirtualNode(start_input.arg)) @@ base
                     ELSE base
    IN  IF end_input.form = "pos"
        THEN (virtual_end :> VirtualNode(end_input.arg)) @@ withStart
        ELSE withStart

\* line 1175
ReadWormholePairs(table) ==
    {SortedPair(IdStr(wh[1]), IdStr(wh[2])) : wh \in table}

\* what a request comes to before its search: a response, or the locals g
Answer(r) == [kind |-> "respond", response |-> r]
Proceed(g) == [kind |-> "search", g |-> g]

\* lines 1173-1175, on the node table and the endpoints
Resolved(rq, rels, slow_names, pairs, map, start, end) ==
    IF start \notin DOMAIN map \/ end \notin DOMAIN map
    THEN Answer(ErrorResponse(404))
    ELSE Proceed([systems_map |-> map, relationships |-> rels,
                  slow_region_names |-> slow_names, wormhole_pairs |-> pairs,
                  start_id |-> start, end_id |-> end,
                  avoid_slow_regions |-> rq.avoid_slow_regions,
                  avoid_hostile |-> rq.avoid_hostile])

\* lines 1142-1175, on what the four SELECTs returned; no_rows: the SELECT
\* on systems returned no row
Assemble(rq, rels, slow_names, no_rows, base, pairs) ==
    IF no_rows
    THEN Answer(NoSystems)
    ELSE IF ParseFails(rq.start_id) \/ ParseFails(rq.end_id)
    THEN Answer(ErrorResponse(400))
    ELSE Resolved(rq, rels, slow_names, pairs,
                  ResolvedMap(base, rq.start_id, rq.end_id),
                  ResolveId(rq.start_id, virtual_start),
                  ResolveId(rq.end_id, virtual_end))

\* line 1118
Incomplete(rq) == rq.start_id.form = "missing" \/ rq.end_id.form = "missing"

\* the orders in which the store may return the rows of the two SELECTs
\* whose rows are taken one by one
Orders(st, dev) ==
    [relationships : RowOrders(RelationshipRows(st.faction_relationships)),
     systems : RowOrders(SystemRows(st, dev))]

\* what the four SELECTs return on the store st, the rows in the orders o
Fetched(st, dev, slow, o) ==
    [relationships |-> ReadRelationships(o.relationships),
     slow_region_names |-> ReadSlowRegions(st.region_effects, slow),
     no_rows |-> o.systems = <<>>,
     base |-> BaseMap(o.systems),
     wormhole_pairs |-> ReadWormholePairs(st.wormholes)]

\* what they may return, over the orders of the rows
Fetches(st, dev, slow) == {Fetched(st, dev, slow, o) : o \in Orders(st, dev)}

\* lines 1108-1175 of the request rq, the SELECTs returning f
Begin(rq, f) ==
    IF Incomplete(rq)
    THEN Answer(ErrorResponse(400))
    ELSE Assemble(rq, f.relationships, f.slow_region_names, f.no_rows, f.base,
                  f.wormhole_pairs)

\* lines 1176-1177
Start(g) ==
    [distances |-> [n \in DOMAIN g.systems_map |->
                      IF n = g.start_id THEN BigZero ELSE Inf],
     predecessors |-> [n \in DOMAIN g.systems_map |->
                      [from |-> NoNode, method |-> NoMethod]],
     pq |-> {<<BigZero, g.start_id>>}]

\* the locals of the run in progress
Locals ==
    [systems_map |-> systems_map, relationships |-> relationships,
     slow_region_names |-> slow_region_names, wormhole_pairs |-> wormhole_pairs,
     start_id |-> start_id, end_id |-> end_id,
     avoid_slow_regions |-> avoid_slow_regions, avoid_hostile |-> avoid_hostile]

Frontier == [distances |-> distances, predecessors |-> predecessors, pq |-> pq]

\* variant: answering marks every system as discovered by the faction
Respond_discovering(r) ==
    /\ pc' = "done"
    /\ response' = r
    /\ discovered' = SysIds
    /\ UNCHANGED <<systems, wormholes, faction_relationships, region_effects,
                   is_developer, snapshot, search>>

Respond(r) ==
    /\ pc' = "done"
    /\ response' = r
    /\ UNCHANGED <<store, is_developer, snapshot, search>>

\* the search begins on the locals g
Enter(g, s) ==
    /\ pc' = "search"
    /\ avoid_slow_regions' = g.avoid_slow_regions
    /\ avoid_hostile' = g.avoid_hostile
    /\ relationships' = g.relationships
    /\ slow_region_names' = g.slow_region_names
    /\ systems_map' = g.systems_map
    /\ wormhole_pairs' = g.wormhole_pairs
    /\ start_id' = g.start_id
    /\ end_id' = g.end_id
    /\ distances' = s.distances
    /\ predecessors' = s.predecessors
    /\ pq' = s.pq
    /\ UNCHANGED <<store, is_developer, response>>

\* lines 1106-1177: the reads, the node table, the endpoints, the start of
\* the search
Request(start_input, end_input, slow, hostile, f) ==
    /\ pc = "idle"
    /\ data' = [start_id |-> start_input, end_id |-> end_input]
    /\ \E b \in {Begin(Body(start_input, end_input, slow, hostile), f)} :
          IF b.kind = "respond"
          THEN Respond(b.response)
          ELSE Enter(b.g, Start(b.g))
    /\ UNCHANGED concurrency

(***************************************************************************)
(* the search, lines 1179-1255                                             *)
(***************************************************************************)
\* variant: the entries pushed as (id, distance)
EntryLess_id_first(a, b) ==
    StrLess(a[2], b[2]) \/ (a[2] = b[2] /\ FloatLess(a[1], b[1]))

\* variant: among equal distances the greater identifier first
EntryLess_greater_id_first(a, b) ==
    FloatLess(a[1], b[1]) \/ (a[1] = b[1] /\ StrLess(b[2], a[2]))

\* tuple order of the heap entries (distance, id)
EntryLess(a, b) ==
    FloatLess(a[1], b[1]) \/ (a[1] = b[1] /\ StrLess(a[2], b[2]))

\* heapq.heappop(pq)
HeapMin(heap) == CHOOSE a \in heap : \A b \in heap \ {a} : EntryLess(a, b)

\* the neighbors the inner loop does not skip
Neighbors(g, current_id) ==
    {n \in DOMAIN g.systems_map :
        n # current_id /\ g.systems_map[n].position # NoPosition}

\* the cost and method of the step to neighbor n, and its new_distance
Candidate(n, e, current_distance) ==
    [node |-> n, new_distance |-> FloatAdd(current_distance, e.cost),
     method |-> e.method]

\* the neighbor, new_distance and method of every step out of current_id
Candidates(g, s, current_id) ==
    {Candidate(n, Edge(g, current_id, n), s.distances[current_id]) :
        n \in Neighbors(g, current_id)}

\* the walk back over the predecessors, reversed
RECURSIVE full_path_ids(_, _)
full_path_ids(preds, current_node) ==
    IF current_node = NoNode THEN <<>>
    ELSE full_path_ids(preds, preds[current_node].from) \o <<current_node>>

\* variant: the loop over the path starts at its second node
Legs_from_the_second(path, preds, of) ==
    [i \in 1..(Len(path) - 2) |->
        [from_id |-> path[i + 1], to_id |-> path[i + 2],
         method |-> IF preds[path[i + 1 + of]].method = NoMethod THEN "unknown"
                    ELSE preds[path[i + 1 + of]].method]]

\* the legs of the path; leg i carries the method by which the node
\* path[i + of] was reached
Legs(path, preds, of) ==
    [i \in 1..(Len(path) - 1) |->
        [from_id |-> path[i], to_id |-> path[i + 1],
         method |-> IF preds[path[i + of]].method = NoMethod THEN "unknown"
                    ELSE preds[path[i + of]].method]]

\* lines 1260-1302 on the walk back
Response(g, total_distance, path, legs) ==
    IF total_distance = Inf THEN NoRoute
    ELSE IF path = <<>> \/ path[1] # g.start_id THEN NoRoute
    ELSE IF Len(path) <= 1 THEN RouteResponse(path, <<>>, Round2(total_distance))
    ELSE RouteResponse(path, legs, Round2(total_distance))

\* the walk back with its legs
Walk(g, dists, preds, path, of) ==
    Response(g, dists[g.end_id], path, Legs(path, preds, of))

\* variant: each leg carries the method by which its first node was reached
Reconstruct_method_of_from(g, dists, preds) ==
    Walk(g, dists, preds, full_path_ids(preds, g.end_id), 0)

\* lines 1257-1302
Reconstruct(g, dists, preds) ==
    Walk(g, dists, preds, full_path_ids(preds, g.end_id), 1)

\* variant: a node that has a predecessor keeps it when its distance improves
Relaxed_keeping_first_predecessor(s, top, current_id, improved, leave) ==
    [pq |-> (s.pq \ {top}) \cup {<<c.new_distance, c.node>> : c \in improved},
     distances |-> [n \in DOMAIN s.distances |->
                      IF \E c \in improved : c.node = n
                      THEN (CHOOSE c \in improved : c.node = n).new_distance
                      ELSE s.distances[n]],
     predecessors |-> [n \in DOMAIN s.predecessors |->
                      IF (\E c \in improved : c.node = n)
                         /\ s.predecessors[n].from = NoNode
                      THEN [from |-> current_id,
                            method |-> (CHOOSE c \in improved : c.node = n).method]
                      ELSE s.predecessors[n]],
     leave |-> leave]

\* the tables after the relaxations improved
Relaxed(s, top, current_id, improved, leave) ==
    [pq |-> (s.pq \ {top}) \cup {<<c.new_distance, c.node>> : c \in improved},
     distances |-> [n \in DOMAIN s.distances |->
                      IF \E c \in improved : c.node = n
                      THEN (CHOOSE c \in improved : c.node = n).new_distance
                      ELSE s.distances[n]],
     predecessors |-> [n \in DOMAIN s.predecessors |->
                      IF \E c \in improved : c.node = n
                      THEN [from |-> current_id,
                            method |-> (CHOOSE c \in improved : c.node = n).method]
                      ELSE s.predecessors[n]],
     leave |-> leave]

\* variant: a relaxation updates the neighbor on an equal distance too
Popped_updating_on_equal(g, s, top, stale) ==
    IF stale \/ top[2] = g.end_id \/ g.systems_map[top[2]].position = NoPosition
    THEN [pq |-> s.pq \ {top}, distances |-> s.distances,
          predecessors |-> s.predecessors,
          leave |-> ~stale /\ top[2] = g.end_id]
    ELSE Relaxed(s, top, top[2],
                 {c \in Candidates(g, s, top[2]) :
                     FloatLeq(c.new_distance, s.distances[c.node])},
                 FALSE)

\* the iteration that pops top: stale entries, the target and nodes without
\* a position relax nothing; the loop is left when the target is popped
Popped(g, s, top, stale) ==
    IF stale \/ top[2] = g.end_id \/ g.systems_map[top[2]].position = NoPosition
    THEN [pq |-> s.pq \ {top}, distances |-> s.distances,
          predecessors |-> s.predecessors,
          leave |-> ~stale /\ top[2] = g.end_id]
    ELSE Relaxed(s, top, top[2],
                 {c \in Candidates(g, s, top[2]) :
                     FloatLess(c.new_distance, s.distances[c.node])},
                 FALSE)

\* variant: the loop runs on past the target until the frontier is empty
Tested_until_exhausted(it) == [it EXCEPT !.leave = it.pq = {}]

\* the loop is also left when the frontier is empty at its next test
Tested(it) == [it EXCEPT !.leave = it.leave \/ it.pq = {}]

\* the iteration that pops top, lines 1180-1255
Pop(g, s, top) ==
    Tested(Popped(g, s, top, FloatLess(s.distances[top[2]], top[1])))

\* one iteration of the while loop, up to its next test of pq: the frontier
\* and the tables after it, and whether it leaves the loop (the target is
\* extracted, or the frontier is empty)
Iteration(g, s) == Pop(g, s, HeapMin(s.pq))

\* the while loop, from the outcome it of an iteration
RECURSIVE WhileLoop(_, _)
WhileLoop(g, it) == IF it.leave THEN it ELSE WhileLoop(g, Iteration(g, it))

\* the response built on the tables the loop leaves
Built(g, it) == Reconstruct(g, it.distances, it.predecessors)

\* lines 1176-1302 on the locals g
Route(g) == Built(g, WhileLoop(g, Iteration(g, Start(g))))

\* the response of a request b has come to
Finish(b) == IF b.kind = "respond" THEN b.response ELSE Route(b.g)

\* calculate_path on the store st, the rows returned in the orders o
calculate_path(st, dev, rq, o) ==
    Finish(Begin(rq, Fetched(st, dev, rq.avoid_slow_regions, o)))

\* one iteration; the iteration that leaves the loop builds the response
SearchStep ==
    /\ pc = "search"
    /\ pq # {}
    /\ \E it \in {Iteration(Locals, Frontier)} :
          /\ pq' = it.pq
          /\ distances' = it.distances
          /\ predecessors' = it.predecessors
          /\ IF it.leave
             THEN /\ pc' = "done"
                  /\ response' = Built(Locals, it)
             ELSE UNCHANGED <<pc, response>>
          /\ UNCHANGED <<store, is_developer, data, snapshot, concurrency>>

\* the response is sent and the request's locals are gone
Return ==
    /\ pc = "done"
    /\ pc' = "idle"
    /\ data' = NoData
    /\ response' = NoResponse
    /\ avoid_slow_regions' = FALSE
    /\ avoid_hostile' = FALSE
    /\ relationships' = <<>>
    /\ slow_region_names' = {}
    /\ systems_map' = <<>>
    /\ wormhole_pairs' = {}
    /\ start_id' = NoNode
    /\ end_id' = NoNode
    /\ distances' = <<>>
    /\ predecessors' = <<>>
    /\ pq' = {}
    /\ instants' = {}
    /\ UNCHANGED <<store, is_developer, writes>>

(***************************************************************************)
(* initial states                                                          *)
(***************************************************************************)
\* the visibility of the plain store first: every system discovered, no
\* developer session
Visibility ==
    { [dev |-> FALSE, seen |-> SysIds],
      [dev |-> FALSE, seen |-> {1, 3}],
      [dev |-> FALSE, seen |-> {}],
      [dev |-> TRUE,  seen |-> {}] }

\* The plain store has no catapult, no owner, no region and no wormhole.  A
\* store differs from it in at most MaxFeatures of: one system with a
\* catapult, one owned system, one system in the decay region, one wormhole,
\* the visibility.
Count(flags) == Cardinality({i \in DOMAIN flags : flags[i]})

Init ==
    /\ \E layout \in PositionLayouts :
       \E catapult \in SysIds \cup {0} :
       \E owned \in SysIds \cup {0} :
       \E owner \in Owners :
       \E slowed \in SysIds \cup {0} :
       \E wormhole \in WormholeRows \cup {<<0, 0>>} :
       \E v \in Visibility :
          /\ owned = 0 => owner = Traveler
          /\ Count(<<catapult # 0, owned # 0, slowed # 0, wormhole # <<0, 0>>,
                     v # [dev |-> FALSE, seen |-> SysIds]>>) <= MaxFeatures
          /\ systems = [n \in SysIds |->
                          [position |-> layout[n],
                           catapult_radius |-> IF n = catapult THEN CatapultRadius ELSE 0,
                           owner_faction_id |-> IF n = owned THEN owner ELSE None,
                           region_name |-> IF n = slowed THEN "Belt" ELSE NoRegion]]
          /\ wormholes = {wormhole} \cap WormholeRows
          /\ discovered = v.seen
          /\ is_developer = v.dev
    /\ faction_relationships = Relationships
    /\ region_effects = RegionEffects
    /\ pc = "idle"
    /\ data = NoData
    /\ response = NoResponse
    /\ avoid_slow_regions = FALSE
    /\ avoid_hostile = FALSE
    /\ relationships = <<>>
    /\ slow_region_names = {}
    /\ systems_map = <<>>
    /\ wormhole_pairs = {}
    /\ start_id = NoNode
    /\ end_id = NoNode
    /\ distances = <<>>
    /\ predecessors = <<>>
    /\ pq = {}
    /\ instants = {}
    /\ writes = 0

Next ==
    \/ /\ pc = "idle"
       /\ \E slow \in BOOLEAN :
          \E f \in Fetches(Store, is_developer, slow) :
          \E start_input \in Inputs, end_input \in Inputs, hostile \in BOOLEAN :
             Request(start_input, end_input, slow, hostile, f)
    \/ SearchStep
    \/ Return

Spec == Init /\ [][Next]_vars

\* one request from its arrival to its response: an iteration of the loop
\* that can be taken is taken
Arrive ==
    /\ pc = "idle"
    /\ \E slow \in BOOLEAN :
       \E f \in Fetches(Store, is_developer, slow) :
       \E start_input \in Inputs, end_input \in Inputs, hostile \in BOOLEAN :
          Request(start_input, end_input, slow, hostile, f)

LiveNext == Arrive \/ SearchStep

\* weak fairness of SearchStep, WF_vars(SearchStep), with ENABLED SearchStep
\* written out: the step's guard, the rest of it being assignments
SearchStepFair ==
    <>[](pc = "search" /\ pq # {}) => []<><<SearchStep>>_vars

LiveSpec == Init /\ [][LiveNext]_vars /\ SearchStepFair

(***************************************************************************)
(* snapshots with a system record whose position is missing or unparsable  *)
(***************************************************************************)
Malformed == {NoPosition, Unparsable}

\* the visibility of these stores
RecordVisibility == {SysIds, {1, 3}, {1}}

\* one record of the store is malformed; the others are at the whole
\* positions, and the store has at most one catapult and one wormhole
RecordInit ==
    /\ \E m \in SysIds :
       \E bad \in Malformed :
       \E catapult \in SysIds \cup {0} :
       \E wormhole \in WormholeRows \cup {<<0, 0>>} :
          /\ systems = [n \in SysIds |->
                          [position |-> IF n = m THEN bad ELSE WholeLayout[n],
                           catapult_radius |-> IF n = catapult THEN CatapultRadius ELSE 0,
                           owner_faction_id |-> None,
                           region_name |-> NoRegion]]
          /\ wormholes = {wormhole} \cap WormholeRows
    /\ discovered \in RecordVisibility
    /\ is_developer = FALSE
    /\ faction_relationships = Relationships
    /\ region_effects = RegionEffects
    /\ pc = "idle"
    /\ data = NoData
    /\ response = NoResponse
    /\ avoid_slow_regions = FALSE
    /\ avoid_hostile = FALSE
    /\ relationships = <<>>
    /\ slow_region_names = {}
    /\ systems_map = <<>>
    /\ wormhole_pairs = {}
    /\ start_id = NoNode
    /\ end_id = NoNode
    /\ distances = <<>>
    /\ predecessors = <<>>
    /\ pq = {}
    /\ instants = {}
    /\ writes = 0

RecordSpec == RecordInit /\ [][Next]_vars

(***************************************************************************)
(* the request read by read, among the writes of the admin endpoints       *)
(***************************************************************************)
MaxWrites == 2

\* the requests and the arguments of the admin endpoints
ConcInputs == {SysRef(1), SysRef(2), Missing}
WrittenSystems == {2}
WrittenOwners == {None, WarFaction}
WrittenFactions == {Traveler, WarFaction}
WrittenPairs == {<<3, 1>>}
WrittenRegions == {"Belt"}
WrittenPositions == {None, 700}

Reading == {"relationships", "regions", "systems", "wormholes"}

\* the body of the request in progress
Asking == Body(data.start_id, data.end_id, avoid_slow_regions, avoid_hostile)

\* lines 1106-1119: the body is taken and the connection opened
Receive(start_input, end_input, slow, hostile) ==
    /\ pc = "idle"
    /\ data' = [start_id |-> start_input, end_id |-> end_input]
    /\ instants' = {Store}
    /\ IF Incomplete(Body(start_input, end_input, slow, hostile))
       THEN Respond(ErrorResponse(400))
       ELSE /\ pc' = "relationships"
            /\ avoid_slow_regions' = slow
            /\ avoid_hostile' = hostile
            /\ UNCHANGED <<store, is_developer, relationships, slow_region_names,
                           systems_map, wormhole_pairs, start_id, end_id, search,
                           response>>
    /\ UNCHANGED writes

\* lines 1122-1126
SelectRelationships ==
    /\ pc = "relationships"
    /\ \E o \in RowOrders(RelationshipRows(faction_relationships)) :
          relationships' = ReadRelationships(o)
    /\ pc' = "regions"
    /\ UNCHANGED <<store, is_developer, data, avoid_slow_regions, avoid_hostile,
                   slow_region_names, systems_map, wormhole_pairs, start_id,
                   end_id, search, response, concurrency>>

\* lines 1129-1133
SelectSlowRegions ==
    /\ pc = "regions"
    /\ slow_region_names' = ReadSlowRegions(region_effects, avoid_slow_regions)
    /\ pc' = "systems"
    /\ UNCHANGED <<store, is_developer, data, avoid_slow_regions, avoid_hostile,
                   relationships, systems_map, wormhole_pairs, start_id, end_id,
                   search, response, concurrency>>

\* lines 1135-1140 and 1145-1156: the rows of systems, kept as the node table
SelectSystems ==
    /\ pc = "systems"
    /\ \E o \in RowOrders(SystemRows(Store, is_developer)) :
          systems_map' = BaseMap(o)
    /\ pc' = "wormholes"
    /\ UNCHANGED <<store, is_developer, data, avoid_slow_regions, avoid_hostile,
                   relationships, slow_region_names, wormhole_pairs, start_id,
                   end_id, search, response, concurrency>>

\* lines 1140-1177: the rows of wormholes, then the rest of the request up to
\* the start of the search, on what the four SELECTs returned (every position
\* of these stores is parsed, so no row was returned iff the node table is
\* empty)
SelectWormholes ==
    /\ pc = "wormholes"
    /\ \E b \in {Assemble(Asking, relationships, slow_region_names,
                          DOMAIN systems_map = {}, systems_map,
                          ReadWormholePairs(wormholes))} :
          IF b.kind = "respond"
          THEN Respond(b.response)
          ELSE Enter(b.g, Start(b.g))
    /\ UNCHANGED <<data, concurrency>>

\* conn.commit() of another request: the store has a new value, which a
\* request in progress may see in its next read
Committed ==
    /\ UNCHANGED <<discovered, is_developer, pc, data, snapshot, search, response>>
    /\ instants' = IF pc \in Reading \cup {"search"}
                   THEN instants \cup {Store'}
                   ELSE instants

Commit ==
    /\ writes < MaxWrites
    /\ writes' = writes + 1
    /\ Committed

add_relationship(id_a, id_b, status) ==
    /\ id_a # id_b
    /\ LET faction_a_id == IF id_a < id_b THEN id_a ELSE id_b
           faction_b_id == IF id_a < id_b THEN id_b ELSE id_a
       IN  faction_relationships' =
              {r \in faction_relationships :
                  ~(r.faction_a_id = faction_a_id /\ r.faction_b_id = faction_b_id)}
              \cup {[faction_a_id |-> faction_a_id, faction_b_id |-> faction_b_id,
                     status |-> status]}
    /\ UNCHANGED <<systems, wormholes, region_effects>>
    /\ Commit

delete_relationship(id_a, id_b) ==
    /\ LET faction_a_id == IF id_a < id_b THEN id_a ELSE id_b
           faction_b_id == IF id_a < id_b THEN id_b ELSE id_a
       IN  faction_relationships' =
              {r \in faction_relationships :
                  ~(r.faction_a_id = faction_a_id /\ r.faction_b_id = faction_b_id)}
    /\ UNCHANGED <<systems, wormholes, region_effects>>
    /\ Commit

update_system_owner(system_id, owner_id) ==
    /\ systems' = [n \in DOMAIN systems |->
                     IF n = system_id
                     THEN [systems[n] EXCEPT !.owner_faction_id = owner_id]
                     ELSE systems[n]]
    /\ UNCHANGED <<wormholes, faction_relationships, region_effects>>
    /\ Commit

update_system(system_id, new_radius) ==
    /\ systems' = [n \in DOMAIN systems |->
                     IF n = system_id
                     THEN [systems[n] EXCEPT !.catapult_radius = new_radius]
                     ELSE systems[n]]
    /\ UNCHANGED <<wormholes, faction_relationships, region_effects>>
    /\ Commit

\* INSERT INTO wormholes of the pair as the request gives it
InsertWormhole_as_given(table, id_a, id_b) ==
    IF id_a = id_b \/ <<id_a, id_b>> \in table
    THEN [status |-> 400, table |-> table]
    ELSE [status |-> 200, table |-> table \cup {<<id_a, id_b>>}]

\* the table after add_wormhole and the status of its response: equal ends
\* are refused, and the INSERT of a row the table has fails on the primary
\* key and is rolled back
InsertWormhole(table, id_a, id_b) ==
    LET system_a_id == IF id_a < id_b THEN id_a ELSE id_b
        system_b_id == IF id_a < id_b THEN id_b ELSE id_a
    IN  IF id_a = id_b \/ <<system_a_id, system_b_id>> \in table
        THEN [status |-> 400, table |-> table]
        ELSE [status |-> 200,
              table |-> table \cup {<<system_a_id, system_b_id>>}]

\* the table after delete_wormhole
DeleteWormhole(table, id_a, id_b) ==
    LET system_a_id == IF id_a < id_b THEN id_a ELSE id_b
        system_b_id == IF id_a < id_b THEN id_b ELSE id_a
    IN  table \ {<<system_a_id, system_b_id>>}

\* the table after the wormhole part of a sync: the rows of the current
\* system go, and every stable wormhole between known systems is inserted
\* smaller id first, a row the table has being ignored
SyncWormholes(table, current_system_id, stable_wormholes, known_system_ids) ==
    LET kept == {row \in table : /\ row[1] # current_system_id
                                 /\ row[2] # current_system_id}
        listed == {wh \in stable_wormholes : /\ wh[1] \in known_system_ids
                                             /\ wh[2] \in known_system_ids}
    IN  kept \cup {<<IF wh[1] < wh[2] THEN wh[1] ELSE wh[2],
                     IF wh[1] < wh[2] THEN wh[2] ELSE wh[1]>> : wh \in listed}

add_wormhole(id_a, id_b) ==
    /\ InsertWormhole(wormholes, id_a, id_b).status = 200
    /\ wormholes' = InsertWormhole(wormholes, id_a, id_b).table
    /\ UNCHANGED <<systems, faction_relationships, region_effects>>
    /\ Commit

delete_wormhole(id_a, id_b) ==
    /\ wormholes' = DeleteWormhole(wormholes, id_a, id_b)
    /\ UNCHANGED <<systems, faction_relationships, region_effects>>
    /\ Commit

\* the 50-wide bracket of a position, in hundredths
region_size == 5000
region_start(position) == (position \div region_size) * region_size

add_region_effect(region_name, effect_name, position) ==
    /\ region_effects' =
          {e \in region_effects : e.region_name # region_name}
          \cup {[region_name |-> region_name, effect_name |-> effect_name]}
    /\ systems' = [n \in DOMAIN systems |->
                     IF /\ position # None
                        /\ systems[n].position >= region_start(position)
                        /\ systems[n].position < region_start(position) + region_size
                     THEN [systems[n] EXCEPT !.region_name = region_name]
                     ELSE systems[n]]
    /\ UNCHANGED <<wormholes, faction_relationships>>
    /\ Commit

\* nothing is deleted, and nothing committed, when the region has no effect
delete_region_effect(region_name) ==
    /\ \E e \in region_effects : e.region_name = region_name
    /\ region_effects' = {e \in region_effects : e.region_name # region_name}
    /\ systems' = [n \in DOMAIN systems |->
                     IF systems[n].region_name = region_name
                     THEN [systems[n] EXCEPT !.region_name = NoRegion]
                     ELSE systems[n]]
    /\ UNCHANGED <<wormholes, faction_relationships>>
    /\ Commit

\* the plain store, every system discovered
ConcInit ==
    /\ Init
    /\ \A n \in SysIds :
          systems[n] = [position |-> WholeLayout[n], catapult_radius |-> 0,
                        owner_faction_id |-> None, region_name |-> NoRegion]
    /\ wormholes = {}
    /\ discovered = SysIds
    /\ ~is_developer

ConcNext ==
    \/ \E start_input \in ConcInputs, end_input \in ConcInputs :
       \E slow \in BOOLEAN, hostile \in BOOLEAN :
          Receive(start_input, end_input, slow, hostile)
    \/ SelectRelationships
    \/ SelectSlowRegions
    \/ SelectSystems
    \/ SelectWormholes
    \/ SearchStep
    \/ Return
    \/ \E id_a \in WrittenFactions, id_b \in WrittenFactions :
       \E status \in {"allied", "war"} :
          add_relationship(id_a, id_b, status)
    \/ \E id_a \in WrittenFactions, id_b \in WrittenFactions :
          delete_relationship(id_a, id_b)
    \/ \E system_id \in WrittenSystems, owner_id \in WrittenOwners :
          update_system_owner(system_id, owner_id)
    \/ \E system_id \in WrittenSystems, new_radius \in {0, CatapultRadius} :
          update_system(system_id, new_radius)
    \/ \E pair \in WrittenPairs : add_wormhole(pair[1], pair[2])
    \/ \E pair \in WrittenPairs : delete_wormhole(pair[1], pair[2])
    \/ \E region_name \in WrittenRegions, position \in WrittenPositions :
          add_region_effect(region_name, slow_effect_name, position)
    \/ \E region_name \in WrittenRegions : delete_region_effect(region_name)

ConcSpec == ConcInit /\ [][ConcNext]_vars

(***************************************************************************)
(* the writers of the table wormholes, between route requests              *)
(***************************************************************************)
MaxListed == 2

\* the stable wormholes a sync payload lists: from_system_id, to_system_id
\* of two systems
ListedWormholes == {wh \in SysIds \X SysIds : wh[1] # wh[2]}
Payloads == {ws \in SUBSET ListedWormholes : Cardinality(ws) <= MaxListed}

\* add_wormhole with its commit, outside any request in progress
AddWormholeRow(id_a, id_b) ==
    /\ pc = "idle"
    /\ InsertWormhole(wormholes, id_a, id_b).status = 200
    /\ wormholes' = InsertWormhole(wormholes, id_a, id_b).table
    /\ UNCHANGED <<systems, faction_relationships, region_effects, writes>>
    /\ Committed

DeleteWormholeRow(id_a, id_b) ==
    /\ pc = "idle"
    /\ wormholes' = DeleteWormhole(wormholes, id_a, id_b)
    /\ UNCHANGED <<systems, faction_relationships, region_effects, writes>>
    /\ Committed

\* the writes of a sync to the table wormholes; the systems of the payload
\* are systems the table has
sync_data(current_system_id, stable_wormholes, known_system_ids) ==
    /\ pc = "idle"
    /\ wormholes' = SyncWormholes(wormholes, current_system_id,
                                  stable_wormholes, known_system_ids)
    /\ UNCHANGED <<systems, faction_relationships, region_effects, writes>>
    /\ Committed

WormholeInit ==
    /\ systems = [n \in SysIds |->
                    [position |-> WholeLayout[n],
                     catapult_radius |-> 0,
                     owner_faction_id |-> None,
                     region_name |-> NoRegion]]
    /\ wormholes = {}
    /\ discovered = SysIds
    /\ is_developer = FALSE
    /\ faction_relationships = Relationships
    /\ region_effects = RegionEffects
    /\ pc = "idle"
    /\ data = NoData
    /\ response = NoResponse
    /\ avoid_slow_regions = FALSE
    /\ avoid_hostile = FALSE
    /\ relationships = <<>>
    /\ slow_region_names = {}
    /\ systems_map = <<>>
    /\ wormhole_pairs = {}
    /\ start_id = NoNode
    /\ end_id = NoNode
    /\ distances = <<>>
    /\ predecessors = <<>>
    /\ pq = {}
    /\ instants = {}
    /\ writes = 0

WormholeNext ==
    \/ Arrive
    \/ SearchStep
    \/ Return
    \/ \E id_a \in SysIds, id_b \in SysIds : AddWormholeRow(id_a, id_b)
    \/ \E id_a \in SysIds, id_b \in SysIds : DeleteWormholeRow(id_a, id_b)
    \/ \E current_system_id \in SysIds :
       \E stable_wormholes \in Payloads :
       \E nearby \in SUBSET SysIds :
          sync_data(current_system_id, stable_wormholes,
                    nearby \cup {current_system_id})

WormholeSpec == WormholeInit /\ [][WormholeNext]_vars

(***************************************************************************)
(* the cheapest walk, computed apart from the search                       *)
(***************************************************************************)
Min(S) == CHOOSE x \in S : \A y \in S : x <= y

\* the cost of every step between two nodes of the request, in hundredths
StepCosts ==
    {<<m, n, Round2(Edge(Locals, m, n).cost)>> :
        m \in DOMAIN systems_map, n \in DOMAIN systems_map} \ 
    {<<n, n, Round2(Edge(Locals, n, n).cost)>> : n \in DOMAIN systems_map}

\* table is a set of <<node, cost of the cheapest walk found to it>>
Reached(table) == {p[1] : p \in table}
Lookup(table, n) == (CHOOSE p \in table : p[1] = n)[2]

\* table, extended by the walks of at most k more steps
RECURSIVE Relax(_, _, _)
Relax(table, steps, k) ==
    IF k = 0 THEN table
    ELSE LET open == {e \in steps : e[1] \in Reached(table)}
         IN  Relax({<<n, Min({p[2] : p \in {q \in table : q[1] = n}} \cup
                             {Lookup(table, e[1]) + e[3] :
                                 e \in {x \in open : x[2] = n}})>> :
                        n \in Reached(table) \cup {e[2] : e \in open}},
                   steps, k - 1)

\* the cost of the cheapest walk from start_id to end_id, in hundredths
MinWalkCost ==
    Lookup(Relax({<<start_id, 0>>}, StepCosts, Cardinality(DOMAIN systems_map) - 1),
           end_id)

\* the search of a request has ended and its response is not yet sent
Searched == pc = "done" /\ start_id # NoNode

\* C1: the distance a search reports is the minimum, over all node sequences
\* from the start to the end, of the sum of the costs of their steps (to the
\* two decimals of the response).
C1_ShortestDistance ==
    Searched => /\ response.status = 200
                /\ response.distance = MinWalkCost

\* a search over four nodes, with both flags, that ends on a three-node path
C1_Witness ==
    /\ Searched
    /\ Cardinality(DOMAIN systems_map) = 4
    /\ avoid_slow_regions /\ avoid_hostile
    /\ Len(response.path) = 3
    /\ response.distance > 0

Leg(from, to, method) == [from_id |-> from, to_id |-> to, method |-> method]

\* the store and the request of Scenario A: S1 at 0, S2 at 5 with an unowned
\* catapult of radius 5, S3 at 12, the wormhole S2-S3, no flag, S1 -> S3
ScenarioA ==
    /\ Searched
    /\ [n \in SysIds |-> systems[n].position] = WholeLayout
    /\ [n \in SysIds |-> systems[n].catapult_radius] = <<0, CatapultRadius, 0>>
    /\ \A n \in SysIds : systems[n].owner_faction_id = None
    /\ wormholes = {<<2, 3>>}
    /\ DOMAIN systems_map = {"1", "2", "3"}
    /\ ~avoid_slow_regions /\ ~avoid_hostile
    /\ start_id = "1" /\ end_id = "3"

\* C2 as stated: in Scenario A the route is [S1,S2,S3] with the legs
\* (S1,S2,catapult), (S2,S3,wormhole) and the distance 0.00.
C2_ScenarioA_AsStated ==
    ScenarioA =>
        /\ response.path = <<"1", "2", "3">>
        /\ response.detailed_path =
              <<Leg("1", "2", "catapult"), Leg("2", "3", "wormhole")>>
        /\ response.distance = 0

\* C2: in Scenario A the route is [S1,S2,S3] with the legs (S1,S2,sublight),
\* (S2,S3,wormhole) and the distance 5.00: the step S1 -> S2 departs from S1,
\* which has no catapult.
C2_ScenarioA ==
    ScenarioA =>
        /\ response.path = <<"1", "2", "3">>
        /\ response.detailed_path =
              <<Leg("1", "2", "sublight"), Leg("2", "3", "wormhole")>>
        /\ response.distance = 500

C2_Witness == ScenarioA /\ response.status = 200

(***************************************************************************)
(* the access rules, stated on the tables of the store                     *)
(***************************************************************************)
\* the status recorded between the traveler's faction and faction f, if any
Status(f) ==
    LET rows == {r \in faction_relationships :
                    {r.faction_a_id, r.faction_b_id} = {f, Traveler}}
    IN  IF rows = {} THEN "None" ELSE (CHOOSE r \in rows : TRUE).status

Friendly(owner) == owner = None \/ owner = Traveler \/ Status(owner) = "allied"
AtWar(owner) == owner # None /\ Status(owner) = "war"

CatapultMethods == {"catapult", "catapult_sublight"}

\* the ordered pairs of distinct nodes of the request
Steps == {p \in (DOMAIN systems_map) \X (DOMAIN systems_map) : p[1] # p[2]}

\* the steps that depart from a catapult
CatapultSteps == {p \in Steps : systems_map[p[1]].radius > 0}

\* the step's cost and method once the catapult step has run
AfterCatapult(p) ==
    EdgeAfterCatapult(Locals, p[1], p[2], avoid_slow_regions, avoid_hostile,
                      sublight_dist(Locals, p[1], p[2]))

SamePosition(p) == systems_map[p[1]].position = systems_map[p[2]].position

\* C3 as stated: on a step that departs from a catapult, the catapult is
\* applied iff its owner is absent, the traveler's faction or an ally; under a
\* neutral or hostile owner the step's method is never a catapult method.
C3_CatapultGating_AsStated ==
    Searched =>
        \A p \in CatapultSteps :
            /\ AfterCatapult(p).method \in CatapultMethods
                  <=> Friendly(systems_map[p[1]].owner)
            /\ ~Friendly(systems_map[p[1]].owner)
                  => Edge(Locals, p[1], p[2]).method \notin CatapultMethods

\* C3: on a step of non-zero sublight distance that departs from a catapult,
\* the catapult is applied iff its owner is absent, the traveler's faction or
\* an ally; a step of zero distance keeps its method; under a neutral or
\* hostile owner the step's method is never a catapult method.
C3_CatapultGating ==
    Searched =>
        \A p \in CatapultSteps :
            /\ AfterCatapult(p).method \in CatapultMethods
                  <=> (Friendly(systems_map[p[1]].owner) /\ ~SamePosition(p))
            /\ ~Friendly(systems_map[p[1]].owner)
                  => Edge(Locals, p[1], p[2]).method \notin CatapultMethods

\* a request with a step of zero distance out of an ally's catapult and a
\* step of non-zero distance that the catapult serves
C3_Witness ==
    /\ Searched
    /\ \E p \in CatapultSteps :
          /\ systems_map[p[1]].owner = AlliedFaction
          /\ SamePosition(p)
          /\ AfterCatapult(p).method = "sublight"
    /\ \E p \in CatapultSteps : AfterCatapult(p).method = "catapult_sublight"

\* the steps between the two ends of a registered wormhole
WormholeSteps ==
    {p \in Steps : \E wh \in wormholes :
        {p[1], p[2]} = {IdStr(wh[1]), IdStr(wh[2])}}

\* C4: a step along a registered wormhole costs 0 unless the owner of one of
\* its ends is at war with the traveler's faction, and then its method is not
\* the wormhole; an absent owner and an owner without a record never block it.
C4_WormholeGating ==
    Searched =>
        \A p \in WormholeSteps :
            IF AtWar(systems_map[p[1]].owner) \/ AtWar(systems_map[p[2]].owner)
            THEN Edge(Locals, p[1], p[2]).method # "wormhole"
            ELSE Edge(Locals, p[1], p[2]).cost = BigZero

\* a route that takes a wormhole into a neutral owner's system
C4_Witness ==
    /\ Searched
    /\ \E i \in DOMAIN response.detailed_path :
          /\ response.detailed_path[i].method = "wormhole"
          /\ systems_map[response.detailed_path[i].to_id].owner = NeutralFaction

(***************************************************************************)
(* penalties                                                               *)
(***************************************************************************)
\* the node's region carries the decay effect
InDecay(n) ==
    \E e \in region_effects :
        /\ e.region_name = systems_map[n].region_name
        /\ e.effect_name = slow_effect_name

\* the sublight distance of the step, in hundredths
Span(p) == Abs(systems_map[p[1]].position - systems_map[p[2]].position)

\* the cost of the step with both flags unset, in hundredths
BaseCost(p) == Round2(EdgeUnder(Locals, p[1], p[2], FALSE, FALSE).cost)

\* C5 as stated: with both flags set, a step with an end in a decay region
\* and an end owned by a faction at war costs 100 * 100 times its base cost,
\* the cost it has with the flags unset.
C5_PenaltyStacking_AsStated ==
    (Searched /\ avoid_slow_regions /\ avoid_hostile) =>
        \A p \in Steps :
            (/\ InDecay(p[1]) \/ InDecay(p[2])
             /\ AtWar(systems_map[p[1]].owner) \/ AtWar(systems_map[p[2]].owner))
            => Round2(Edge(Locals, p[1], p[2]).cost)
                  = BaseCost(p) * penalty_multiplier * penalty_multiplier

\* C6 as stated: with avoid_hostile set, a step of sublight distance 10 with
\* an end owned by a faction at war costs 1000.
C6_ScenarioC_AsStated ==
    (Searched /\ avoid_hostile /\ ~avoid_slow_regions) =>
        \A p \in Steps :
            (/\ Span(p) = 1000
             /\ AtWar(systems_map[p[1]].owner) \/ AtWar(systems_map[p[2]].owner))
            => Round2(Edge(Locals, p[1], p[2]).cost) = 100000

(***************************************************************************)
(* routes                                                                  *)
(***************************************************************************)
\* no node of the request has a catapult the traveler may use
NoUsableCatapult ==
    \A n \in DOMAIN systems_map :
        systems_map[n].radius > 0 => ~Friendly(systems_map[n].owner)

\* C7 as stated: without a usable catapult, a wormhole or a flag, the route
\* between two distinct nodes is the single sublight leg [start, end] with
\* the distance |position(start) - position(end)|.
C7_DirectSublight_AsStated ==
    (/\ Searched
     /\ NoUsableCatapult /\ wormholes = {}
     /\ ~avoid_slow_regions /\ ~avoid_hostile
     /\ start_id # end_id) =>
        /\ response.path = <<start_id, end_id>>
        /\ response.detailed_path = <<Leg(start_id, end_id, "sublight")>>
        /\ response.distance = Span(<<start_id, end_id>>)

\* the reference names a system the traveler sees, or a well-formed position
Resolves(input) ==
    \/ input.form = "sys" /\ input.arg \in VisibleRows
    \/ input.form = "pos" /\ input.arg # BadLiteral

NothingReached ==
    [distances |-> [n \in DOMAIN systems_map |->
                      IF n = start_id THEN BigZero ELSE Inf],
     predecessors |-> [n \in DOMAIN systems_map |->
                      [from |-> NoNode, method |-> NoMethod]]]

WellFormed(input) ==
    input.form = "sys" \/ (input.form = "pos" /\ input.arg # BadLiteral)

\* the reference names a system that is not among the traveler's rows
Unseen(input) == input.form = "sys" /\ input.arg \notin VisibleRows

\* C11 as stated: a request with two well-formed endpoints, one of them a
\* reference to a system absent from the traveler's node table, is answered
\* 404, also when the traveler sees no system, and never with the empty path
\* and the null distance.
C11_NotFound_AsStated ==
    (/\ pc = "done"
     /\ WellFormed(data.start_id) /\ WellFormed(data.end_id)
     /\ Unseen(data.start_id) \/ Unseen(data.end_id)) =>
        response = ErrorResponse(404)

\* C12 as stated: a request with an unparsable position literal for its
\* start or its end is answered 400, whatever the store holds.
C12_Validation_AsStated ==
    (pc = "done" /\ (ParseFails(data.start_id) \/ ParseFails(data.end_id))) =>
        response = ErrorResponse(400)

\* C13 as stated: a request with a position for an endpoint, and a visible
\* system or a position for the other, gets a route that begins at its start
\* and ends at its end, over a node table that holds the virtual node (no
\* owner, radius 0, no region) at that position; also when the traveler sees
\* no system.
C13_ScenarioD_AsStated ==
    (/\ pc = "done"
     /\ Resolves(data.start_id) /\ Resolves(data.end_id)
     /\ data.start_id.form = "pos" \/ data.end_id.form = "pos") =>
        /\ response.status = 200
        /\ response.path # <<>>
        /\ response.distance # NoDistance
        /\ response.path[1] = ResolveId(data.start_id, virtual_start)
        /\ response.path[Len(response.path)] = ResolveId(data.end_id, virtual_end)
        /\ data.start_id.form = "pos" =>
              systems_map[virtual_start] = VirtualNode(data.start_id.arg)
        /\ data.end_id.form = "pos" =>
              systems_map[virtual_end] = VirtualNode(data.end_id.arg)

(***************************************************************************)
(* symmetry                                                                *)
(***************************************************************************)
\* the node has a catapult the traveler may use
UsableCatapult(n) ==
    systems_map[n].radius > 0 /\ Friendly(systems_map[n].owner)

\* C14: between two nodes neither of which has a catapult the traveler may
\* use, the step has the same cost and the same method in both directions,
\* under the flags of every request.
C14_Symmetry ==
    Searched =>
        \A p \in Steps :
            (~UsableCatapult(p[1]) /\ ~UsableCatapult(p[2])) =>
                Edge(Locals, p[1], p[2]) = Edge(Locals, p[2], p[1])

\* a request with avoid_hostile over a wormhole step and a penalised step,
\* both without a catapult
C14_Witness ==
    /\ Searched
    /\ avoid_hostile
    /\ \E p \in Steps :
          /\ ~UsableCatapult(p[1]) /\ ~UsableCatapult(p[2])
          /\ Edge(Locals, p[1], p[2]).method = "wormhole"
    /\ \E p \in Steps :
          /\ ~UsableCatapult(p[1]) /\ ~UsableCatapult(p[2])
          /\ Round2(Edge(Locals, p[1], p[2]).cost) = Span(p) * penalty_multiplier
          /\ Span(p) > 0

(***************************************************************************)
(* determinism                                                             *)
(***************************************************************************)
\* the request in progress, under the flags slow and hostile
Asked(slow, hostile) == Body(data.start_id, data.end_id, slow, hostile)

\* C15: on one store, whatever order the rows of the SELECTs come back in,
\* a request has one outcome: every order of the rows leads a searched
\* request to the same locals and the run on them to the response that was
\* given, every order leads a request answered without a search to that same
\* answer, and the heap never holds two entries of which neither is popped
\* before the other.
C15_Determinism ==
    /\ Searched =>
          \A f \in Fetches(Store, is_developer, avoid_slow_regions) :
              /\ Begin(Asked(avoid_slow_regions, avoid_hostile), f) = Proceed(Locals)
              /\ Finish(Begin(Asked(avoid_slow_regions, avoid_hostile), f)) = response
    /\ (pc = "done" /\ ~Searched) =>
          \A slow \in BOOLEAN, hostile \in BOOLEAN :
              \A f \in Fetches(Store, is_developer, slow) :
                  Begin(Asked(slow, hostile), f) = Answer(response)
    /\ pc = "search" =>
          \A a \in pq, b \in pq : a # b => (EntryLess(a, b) \/ EntryLess(b, a))

\* a search over three systems and two relationship rows, which come back in
\* twelve orders, ended with a route of at least one step through a system
\* whose owner has a relationship with the traveler
C15_Witness ==
    /\ Searched
    /\ Cardinality(Orders(Store, is_developer)) >= 12
    /\ Len(response.path) >= 2
    /\ \E n \in DOMAIN systems_map :
          systems_map[n].owner \in DOMAIN relationships

(***************************************************************************)
(* reads among writes                                                      *)
(***************************************************************************)
\* the responses calculate_path gives to the request in progress on the
\* store h
Engine(h) ==
    {Finish(Begin(Asking, f)) : f \in Fetches(h, is_developer, avoid_slow_regions)}

\* C16 as stated: the response of a request whose reads were interleaved
\* with writes is the response of calculate_path on the store as it was at
\* one instant during the request.
C16_SnapshotConsistency_AsStated ==
    pc = "done" => \E h \in instants : response \in Engine(h)

(***************************************************************************)
(* visibility and the store                                                *)
(***************************************************************************)
\* the virtual nodes of the request in progress
VirtualIds ==
    (IF data.start_id.form = "pos" THEN {virtual_start} ELSE {})
    \cup (IF data.end_id.form = "pos" THEN {virtual_end} ELSE {})

DiscoveredIds == {IdStr(n) : n \in discovered}

\* a request has built its node table
Mapped == pc \in {"search", "done"} /\ start_id # NoNode

\* C17: the node table of a traveler who is not a developer holds the systems
\* of the faction's discovered set and the virtual nodes of the request, and
\* nothing else, so no undiscovered system is on the path and no step is a
\* wormhole step unless both of its ends are discovered; the node table of a
\* developer holds every system.
C17_Visibility ==
    Mapped =>
        /\ ~is_developer =>
              /\ DOMAIN systems_map = DiscoveredIds \cup VirtualIds
              /\ \A p \in Steps :
                    Edge(Locals, p[1], p[2]).method = "wormhole" =>
                        {p[1], p[2]} \subseteq DiscoveredIds
              /\ pc = "done" =>
                    \A i \in DOMAIN response.path :
                        response.path[i] \in DiscoveredIds \cup VirtualIds
        /\ is_developer =>
              DOMAIN systems_map = {IdStr(n) : n \in DOMAIN systems} \cup VirtualIds

\* the route of a traveler who has not discovered system 2, an end of the
\* one wormhole
C17_Witness ==
    /\ Searched
    /\ ~is_developer /\ discovered = {1, 3}
    /\ \E wh \in wormholes : 2 \in {wh[1], wh[2]}
    /\ Len(response.path) >= 2

\* C18: no step of a route request, whatever its outcome, changes a table of
\* the store, and the node table of a request holds a virtual node only for
\* an endpoint this request gave as a position.
C18_ReadOnly ==
    /\ [][store' = store]_vars
    /\ [](Mapped =>
            /\ virtual_start \in DOMAIN systems_map <=> data.start_id.form = "pos"
            /\ virtual_end \in DOMAIN systems_map <=> data.end_id.form = "pos")

\* a request that created both virtual nodes is answered and the systems
\* table holds the systems only
C18_Witness ==
    /\ Searched
    /\ {virtual_start, virtual_end} \subseteq DOMAIN systems_map
    /\ DOMAIN systems = SysIds
    /\ response.status = 200

(***************************************************************************)
(* connectivity and the order of the penalties                             *)
(***************************************************************************)
\* C19 as stated: a search always ends with a route from the start to the
\* end, and the empty path with the null distance is answered only when an
\* endpoint is not a positioned node.
C19_Connectivity_AsStated ==
    /\ Searched =>
          /\ response.status = 200
          /\ response.path # <<>>
          /\ response.path[1] = start_id
          /\ response.path[Len(response.path)] = end_id
          /\ response.distance # NoDistance
    /\ (pc = "done" /\ response.status = 200 /\ response.path = <<>>) =>
          ~(WellFormed(data.start_id) /\ data.start_id.form = "pos"
            /\ WellFormed(data.end_id) /\ data.end_id.form = "pos")

\* the factor of the penalties that apply to the step under the flags
PenaltyFactor(p) ==
    (IF avoid_slow_regions /\ (InDecay(p[1]) \/ InDecay(p[2]))
     THEN penalty_multiplier ELSE 1)
    * (IF avoid_hostile
          /\ (AtWar(systems_map[p[1]].owner) \/ AtWar(systems_map[p[2]].owner))
       THEN penalty_multiplier ELSE 1)

\* C20 as stated: the cost of a step is the cost it has with the flags unset,
\* times 100 for each penalty that applies to it.
C20_PenaltyOrdering_AsStated ==
    Searched =>
        \A p \in Steps :
            Round2(Edge(Locals, p[1], p[2]).cost) = BaseCost(p) * PenaltyFactor(p)

(***************************************************************************)
(* catapult coverage and the precedence of the methods                     *)
(***************************************************************************)
\* the radius of the node's catapult, in hundredths
Reach(n) == systems_map[n].radius * 100

\* the locals with the catapult of node n taken away
WithoutCatapult(g, n) == [g EXCEPT !.systems_map[n].radius = 0]

\* the step's cost and method before the catapult step runs
BeforeCatapult(p) ==
    EdgeHostilePenalty(Locals,
        EdgeSlowPenalty(Locals, EdgeSublight(sublight_dist(Locals, p[1], p[2])),
                        sublight_dist(Locals, p[1], p[2]), p[1], p[2],
                        avoid_slow_regions),
        p[1], p[2], avoid_hostile)

\* C21: on a step of non-zero distance out of a catapult the traveler may
\* use, a distance up to the radius, the radius included, gives the cost 0
\* and the method catapult; a greater distance gives, once the catapult step
\* has run, the distance less the radius with the method catapult_sublight,
\* which is strictly cheaper than the cost before it; and no step changes
\* when the catapult of its arrival node is taken away.
C21_CatapultCoverage ==
    Searched =>
        /\ \A p \in Steps :
              (UsableCatapult(p[1]) /\ Span(p) > 0) =>
                 IF Span(p) <= Reach(p[1])
                 THEN Edge(Locals, p[1], p[2]) = [cost |-> BigZero, method |-> "catapult"]
                 ELSE /\ AfterCatapult(p).method = "catapult_sublight"
                      /\ Round2(AfterCatapult(p).cost) = Span(p) - Reach(p[1])
                      /\ FloatLess(AfterCatapult(p).cost, BeforeCatapult(p).cost)
        /\ \A p \in Steps :
              Edge(Locals, p[1], p[2]) = Edge(WithoutCatapult(Locals, p[2]), p[1], p[2])

\* a request with a step exactly as long as the radius of the catapult it
\* departs from, a longer step out of a catapult, and a step into a catapult
C21_Witness ==
    /\ Searched
    /\ \E p \in Steps : UsableCatapult(p[1]) /\ Span(p) = Reach(p[1])
    /\ \E p \in Steps : UsableCatapult(p[1]) /\ Span(p) > Reach(p[1])
    /\ \E p \in Steps : UsableCatapult(p[2]) /\ ~UsableCatapult(p[1])

\* the step runs along a registered wormhole neither end of which is owned
\* by a faction at war with the traveler
UsableWormhole(p) ==
    /\ p \in WormholeSteps
    /\ ~AtWar(systems_map[p[1]].owner)
    /\ ~AtWar(systems_map[p[2]].owner)

\* the catapult of the departure node covers the whole step
FullJump(p) == UsableCatapult(p[1]) /\ Span(p) > 0 /\ Span(p) <= Reach(p[1])

\* C22: a step whose cost is 0 keeps its method through the later steps of
\* the evaluation: a full catapult jump along a usable wormhole has the
\* method catapult, every other step of non-zero distance along a usable
\* wormhole, a partial catapult jump included, costs 0 with the method
\* wormhole, and a step between two nodes at one position costs 0 with the
\* method sublight.
C22_MethodPrecedence ==
    Searched =>
        \A p \in Steps :
            /\ BeforeCatapult(p).cost = BigZero => Edge(Locals, p[1], p[2]) = BeforeCatapult(p)
            /\ AfterCatapult(p).cost = BigZero => Edge(Locals, p[1], p[2]) = AfterCatapult(p)
            /\ SamePosition(p) =>
                  Edge(Locals, p[1], p[2]) = [cost |-> BigZero, method |-> "sublight"]
            /\ (UsableWormhole(p) /\ ~SamePosition(p)) =>
                  Edge(Locals, p[1], p[2]) =
                     [cost |-> BigZero,
                      method |-> IF FullJump(p) THEN "catapult" ELSE "wormhole"]

\* a request with a full catapult jump along a usable wormhole and a step
\* between two nodes at one position
C22_Witness ==
    /\ Searched
    /\ \E p \in Steps : UsableWormhole(p) /\ FullJump(p)
    /\ \E p \in Steps : SamePosition(p)

(***************************************************************************)
(* the frontier                                                            *)
(***************************************************************************)
\* entry a leaves the frontier before entry b: the lesser distance, and at
\* one distance the identifier that is first as a string
Before(a, b) ==
    IF a[1] = b[1] THEN SeqLess(Chars[a[2]], Chars[b[2]]) ELSE BigLess(a[1], b[1])

MinWalkTo(n) ==
    Lookup(Relax({<<start_id, 0>>}, StepCosts, Cardinality(DOMAIN systems_map) - 1), n)

\* the nodes whose distance or predecessor the iteration changes
Updated ==
    {n \in DOMAIN distances :
        distances'[n] # distances[n] \/ predecessors'[n] # predecessors[n]}

\* C24: an iteration that extracts an entry whose distance is greater than
\* the node's distance changes nothing but the frontier, which loses the
\* entry; an iteration that updates a neighbor extracts a node at its
\* distance, which is the cost of the cheapest walk to it, updates only
\* neighbors whose distance becomes strictly less, from the extracted node,
\* and pushes exactly these.
C24_StaleEntries ==
    [][pc = "search" =>
          \E top \in pq :
             /\ pq \ pq' = {top}
             /\ BigLess(distances[top[2]], top[1]) =>
                   Updated = {} /\ pq' = pq \ {top}
             /\ \A n \in Updated :
                   /\ BigLess(distances'[n], distances[n])
                   /\ predecessors'[n].from = top[2]
             /\ pq' = (pq \ {top}) \cup {<<distances'[n], n>> : n \in Updated}
             /\ Updated # {} =>
                   /\ top[1] = distances[top[2]]
                   /\ Round2(top[1]) = MinWalkTo(top[2])]_vars

\* the frontier holds an entry of a node whose distance has since become
\* less, and a neighbor at the distance a step out of a reached node gives
C24_Witness ==
    /\ pc = "search"
    /\ \E e \in pq : BigLess(distances[e[2]], e[1])
    /\ \E p \in Steps :
          /\ distances[p[1]] # Inf
          /\ distances[p[2]] = FloatAdd(distances[p[1]], Edge(Locals, p[1], p[2]).cost)
          /\ predecessors[p[2]].from # p[1]

(***************************************************************************)
(* termination                                                             *)
(***************************************************************************)
\* two nodes with a step of cost 0 in each direction
ZeroCycle ==
    \E p \in Steps :
        /\ Edge(Locals, p[1], p[2]).cost = BigZero
        /\ Edge(Locals, p[2], p[1]).cost = BigZero

\* C25: every search ends; an iteration ends it exactly when it extracts the
\* target or leaves the frontier empty, and otherwise the search goes on; the
\* iteration that extracts the target updates no node and the distance it
\* extracts, the target's distance, is the one reported.
C25_Termination ==
    /\ pc = "search" ~> pc = "done"
    /\ [][pc = "search" =>
             \E top \in pq :
                /\ pq \ pq' = {top}
                /\ pc' = IF top[2] = end_id \/ pq' = {} THEN "done" ELSE "search"
                /\ top[2] = end_id =>
                      /\ Updated = {}
                      /\ top[1] = distances[end_id]
                      /\ response'.distance = Round2(top[1])]_vars

\* a search over nodes with a cycle of zero-cost steps has ended after the
\* target was extracted with entries left in the frontier
C25_Witness ==
    /\ Searched
    /\ ZeroCycle
    /\ pq # {}
    /\ Len(response.path) >= 2

(***************************************************************************)
(* malformed records                                                       *)
(***************************************************************************)
\* the systems whose record has no position or one that cannot be parsed
MalformedIds == {n \in DOMAIN systems : systems[n].position \in Malformed}

\* the store without the malformed records
WithoutMalformed ==
    [Store EXCEPT !.systems = [n \in DOMAIN systems \ MalformedIds |-> systems[n]],
                  !.discovered = discovered \ MalformedIds]

\* the endpoint is a position, or a system the traveler is served whose
\* record is not malformed
ValidEndpoint(input) ==
    \/ input.form = "pos" /\ input.arg # BadLiteral
    \/ input.form = "sys" /\ input.arg \in VisibleRows \ MalformedIds

\* C26 as stated: a malformed record is in no step of the search (its
\* distance stays infinite and it is no predecessor) unless it is the start,
\* and the response to a request between two valid endpoints is the response
\* of calculate_path on the store without the malformed records.
C26_MalformedRecords_AsStated ==
    /\ Mapped =>
          \A n \in MalformedIds :
             IdStr(n) # start_id =>
                /\ IdStr(n) \in DOMAIN distances => distances[IdStr(n)] = Inf
                /\ \A x \in DOMAIN predecessors : predecessors[x].from # IdStr(n)
    /\ (pc = "done" /\ ValidEndpoint(data.start_id) /\ ValidEndpoint(data.end_id)) =>
          /\ response.status # 500
          /\ response \in
                {Finish(Begin(Asked(avoid_slow_regions, avoid_hostile), f)) :
                    f \in Fetches(WithoutMalformed, is_developer, avoid_slow_regions)}

(***************************************************************************)
(* the rows of the table wormholes                                         *)
(***************************************************************************)
\* the rows of the table that join the two systems, in either order
RowsOf(table, id_a, id_b) ==
    {row \in table : {row[1], row[2]} = {id_a, id_b}}

\* the route engine takes the step from -> to by the wormhole
ByWormhole(from, to) ==
    /\ id_pair(IdStr(from), IdStr(to)) \in wormhole_pairs
    /\ Edge(Locals, IdStr(from), IdStr(to)) =
           [cost |-> BigZero, method |-> "wormhole"]

RECURSIVE Back(_, _)
Back(n, k) ==
    IF k = 0 \/ n = NoNode THEN n ELSE Back(predecessors[n].from, k - 1)

\* the cost of the first i nodes of the path: the costs of its steps, added
\* from the start on
RECURSIVE PathCost(_, _)
PathCost(path, i) ==
    IF i <= 1 THEN BigZero
    ELSE FloatAdd(PathCost(path, i - 1),
                  Edge(Locals, path[i - 1], path[i]).cost)

\* C28: in every state of a search the start has no predecessor, the
\* predecessor links have no cycle, and every node that has a predecessor is
\* linked back to the start; every path a search answers repeats no node,
\* begins with the start, ends with the end, and the costs of its steps add
\* up to the distance of the end, which the response reports rounded.
C28_WellFormedPath ==
    /\ (pc \in {"search", "done"} /\ start_id # NoNode) =>
          /\ predecessors[start_id].from = NoNode
          /\ \A n \in DOMAIN predecessors :
                /\ Back(n, Cardinality(DOMAIN predecessors)) = NoNode
                /\ predecessors[n].from # NoNode =>
                      \E k \in 1..Cardinality(DOMAIN predecessors) :
                         Back(n, k) = start_id
    /\ (Searched /\ response.path # <<>>) =>
          /\ \A i, j \in DOMAIN response.path :
                response.path[i] = response.path[j] => i = j
          /\ response.path[1] = start_id
          /\ response.path[Len(response.path)] = end_id
          /\ PathCost(response.path, Len(response.path)) = distances[end_id]
          /\ response.distance = Round2(distances[end_id])

\* a path of three nodes whose last node was first reached by another step,
\* at a greater distance than the one reported
C28_Witness ==
    /\ Searched
    /\ Len(response.path) = 3
    /\ response.distance > 0
    /\ FloatLess(distances[end_id],
                 Edge(Locals, start_id, end_id).cost)

(***************************************************************************)
(* the leg list of a response                                              *)
(***************************************************************************)
Methods == {"sublight", "catapult", "catapult_sublight", "wormhole"}

\* C29: a response whose path has n >= 2 nodes has n - 1 legs, leg i goes
\* from node i of the path to node i + 1, so that each leg ends where the
\* next one begins, and every leg's method is sublight, catapult,
\* catapult_sublight or wormhole; a path of one node has no leg.
C29_LegList ==
    (pc = "done" /\ response.status = 200) =>
        /\ Len(response.path) >= 2 =>
              /\ Len(response.detailed_path) = Len(response.path) - 1
              /\ \A i \in DOMAIN response.detailed_path :
                    /\ response.detailed_path[i].from_id = response.path[i]
                    /\ response.detailed_path[i].to_id = response.path[i + 1]
                    /\ response.detailed_path[i].method \in Methods
              /\ \A i \in 1..(Len(response.detailed_path) - 1) :
                    response.detailed_path[i].to_id =
                        response.detailed_path[i + 1].from_id
        /\ Len(response.path) = 1 => response.detailed_path = <<>>

\* a response of three nodes whose legs are a partial catapult jump and a
\* wormhole
C29_Witness ==
    /\ pc = "done"
    /\ response.status = 200
    /\ Len(response.path) = 3
    /\ response.detailed_path[1].method = "catapult_sublight"
    /\ response.detailed_path[2].method = "wormhole"

(***************************************************************************)
(* the avoid flags                                                         *)
(***************************************************************************)
\* the locals of the request in progress had it set no flag
Unflagged ==
    [Locals EXCEPT !.avoid_slow_regions = FALSE, !.avoid_hostile = FALSE,
                   !.slow_region_names = {}]

\* C30: on the snapshot and the endpoints of a request, the cost of every
\* step is at least 0 and at least its cost with no flag set, the distance
\* reported is at least the distance reported with no flag set (a route
\* exists under the flags exactly when one exists without them), and with no
\* flag set no step costs more than its sublight distance.
C30_FlagsRaiseCosts ==
    Searched =>
        /\ \A p \in Steps :
              /\ FloatLeq(BigZero, Edge(Locals, p[1], p[2]).cost)
              /\ FloatLeq(BigZero, Edge(Unflagged, p[1], p[2]).cost)
              /\ FloatLeq(Edge(Unflagged, p[1], p[2]).cost,
                          Edge(Locals, p[1], p[2]).cost)
              /\ FloatLeq(Edge(Unflagged, p[1], p[2]).cost,
                          sublight_dist(Locals, p[1], p[2]))
        /\ LET plain == Route(Unflagged).distance
           IN  /\ (response.distance = NoDistance) = (plain = NoDistance)
               /\ plain <= response.distance

\* a request with both flags whose route is longer than the route without
\* them, over a snapshot with a step that costs the same either way and a
\* step that costs more under the flags
C30_Witness ==
    /\ Searched
    /\ avoid_slow_regions /\ avoid_hostile
    /\ Route(Unflagged).distance > 0
    /\ Route(Unflagged).distance < response.distance
    /\ \E p \in Steps :
          /\ FloatLess(BigZero, Edge(Locals, p[1], p[2]).cost)
          /\ is_slow_travel(Locals, p[1], p[2]) \/ is_hostile(Locals, p[1], p[2])
          /\ Edge(Unflagged, p[1], p[2]).cost = Edge(Locals, p[1], p[2]).cost
    /\ \E p \in Steps :
          FloatLess(Edge(Unflagged, p[1], p[2]).cost, Edge(Locals, p[1], p[2]).cost)

====
